---- MODULE Spec2Model ----
(***************************************************************************)
(* Model of src/main.py: the batch script that fetches daily closing       *)
(* prices per company, detects adjacent-day changes of at least 1%,        *)
(* attaches a headline, concatenates the per-company frames into res_df,   *)
(* exports res_df to out_result.csv, appends it to the SQL table and       *)
(* writes the "Oracle" rows of the table to out_db_result.csv.             *)
(*                                                                         *)
(* Numbers.  Prices are fixed-point integers in thousandths (100.0 is      *)
(* 100000), so that round(x, 2) is a real conversion.  Arithmetic is exact *)
(* decimal arithmetic; binary floating-point error is not modelled.        *)
(* Dates are day numbers; a larger number is a later calendar date.        *)
(* Series indexing with an integer on a date-labelled Series is the        *)
(* positional fallback of the pandas versions the script was written for.  *)
(***************************************************************************)
EXTENDS Integers, Sequences, FiniteSets, TLC

VARIABLES
    companies,               \* main.py:167 the ordered ticker -> name dict
    i,                       \* main.py:173 position of the for loop, 1-based
    pc,                      \* the statement the script is about to execute
    stock_json_response,     \* main.py:177 module-level, kept across iterations
    stock_df,                \* main.py:178 module-level, kept across iterations
    res_df,                  \* main.py:171 the accumulated report
    df_last_3_days_closing,  \* main.py:72-76 local of process_stock_prices
    index,                   \* main.py:79 enumerate index, 0-based as in the code
    result_df,               \* main.py:69 local of process_stock_prices
    positive_change,         \* main.py:88-91 local
    change_date,             \* main.py:92-93 local
    news_response,           \* main.py:98 local
    out_result_csv,          \* main.py:186 the file out_result.csv
    table,                   \* the SQL table DbConf.db_conf["table_name"]
    out_db_result_csv,       \* main.py:154 the file out_db_result.csv
    log,                     \* what logging.error received, in order
    called,                  \* history: persistence functions entered this run
    outcome,                 \* history: per visited company, what its iteration did
    table0                   \* history: the table as earlier runs left it

vars == <<companies, i, pc, stock_json_response, stock_df, res_df,
          df_last_3_days_closing, index, result_df, positive_change,
          change_date, news_response, out_result_csv, table,
          out_db_result_csv, log, called, outcome, table0>>

locals == <<df_last_3_days_closing, index, result_df, positive_change,
            change_date, news_response>>

sinks == <<out_result_csv, table, out_db_result_csv, called, table0>>

(***************************************************************************)
(* Bounds of the model                                                     *)
(***************************************************************************)
MaxDates == 4       \* most daily records in one price response
MaxArticles == 2    \* most articles in one news response
MaxPrior == 2       \* most rows earlier runs left in the table

(***************************************************************************)
(* Program constants                                                       *)
(***************************************************************************)
Companies == << [key |-> "IBM",    value |-> "Ibm"],
                [key |-> "TSLA",   value |-> "Tesla"],
                [key |-> "ORCL",   value |-> "Oracle"],
                [key |-> "XYZABS", value |-> "blablabla"],
                [key |-> "AMZN",   value |-> "Amazon"] >>

CompaniesAlt == << [key |-> "IBM", value |-> "Ibm"] >>

CloseRow == 3       \* df.iloc[3, ...]: 0-based row of "4. close"
WindowCols == 3     \* df.iloc[..., :3]: the first three columns
DailyFields == {"1. open", "2. high", "3. low", "4. close", "5. volume"}
NumFields == Cardinality(DailyFields)   \* rows of the frame of a complete response
NoArticles == "No articles found!"
StockNotFound == "Stock not found!"
VerifyCompany == "Oracle"

(***************************************************************************)
(* Values                                                                  *)
(***************************************************************************)
NoJson == [kind |-> "none", hasKey |-> FALSE, nrows |-> 0, cols |-> <<>>]
RaiseJson == [kind |-> "raise", hasKey |-> FALSE, nrows |-> 0, cols |-> <<>>]
NoKeyJson == [kind |-> "json", hasKey |-> FALSE, nrows |-> 0, cols |-> <<>>]
SeriesJson(n, c) == [kind |-> "json", hasKey |-> TRUE, nrows |-> n, cols |-> c]

NoNews == [kind |-> "none", hasKey |-> FALSE, articles |-> <<>>]
RaiseNews == [kind |-> "raise", hasKey |-> FALSE, articles |-> <<>>]
NoKeyNews == [kind |-> "json", hasKey |-> FALSE, articles |-> <<>>]
ArticlesJson(a) == [kind |-> "json", hasKey |-> TRUE, articles |-> a]

NoFile == [exists |-> FALSE, rows |-> <<>>]
File(r) == [exists |-> TRUE, rows |-> r]

Row(c, d, p, t) == [Company |-> c, Date |-> d, PositiveChange |-> p, Title |-> t]

TransportError(where) == [type |-> "TransportError", msg |-> where, val |-> ""]
EmptyResultException(msg, val) == [type |-> "EmptyResultException", msg |-> msg, val |-> val]
IndexError == [type |-> "IndexError", msg |-> "single positional indexer is out-of-bounds", val |-> ""]
DbError(where) == [type |-> "DbError", msg |-> where, val |-> ""]

Returned(df) == [failed |-> FALSE, events |-> df, dropped |-> 0]
Failed(n) == [failed |-> TRUE, events |-> <<>>, dropped |-> n]


(***************************************************************************)
(* Pure helpers of process_stock_prices and process_news                   *)
(***************************************************************************)
Abs(x) == IF x < 0 THEN -x ELSE x

Min(a, b) == IF a < b THEN a ELSE b

\* the element at 0-based position k, as Python indexes
At(s, k) == s[k + 1]

\* a variant that cuts the third decimal instead of rounding
Truncate2(x) == (x \div 10) * 10

\* round(x, 2) on thousandths: to the nearest hundredth, ties to even
Round2(x) ==
    LET q == x \div 10
        r == x % 10
    IN  IF r > 5 \/ (r = 5 /\ q % 2 = 1) THEN (q + 1) * 10 ELSE q * 10

\* df.iloc[3, :3]: the close row over the first three columns of the frame
Iloc(json) == SubSeq(json.cols, 1, Min(WindowCols, Len(json.cols)))

RECURSIVE Insert(_, _)
Insert(e, s) ==
    IF s = <<>> THEN <<e>>
    ELSE IF e.date < Head(s).date THEN <<e>> \o s
    ELSE <<Head(s)>> \o Insert(e, Tail(s))

\* Series.sort_index(): ascending by date label
RECURSIVE SortIndex(_)
SortIndex(s) == IF s = <<>> THEN <<>> ELSE Insert(Head(s), SortIndex(Tail(s)))

\* abs(closing[index] - closing[index + 1])
PositiveChange(s, k) == Abs(At(s, k).close - At(s, k + 1).close)

\* a variant with a strict comparison
MoreThanOnePercent(change, stock_price) == change * 100 > stock_price

\* positive_change >= stock_price * 0.01
AtLeastOnePercent(change, stock_price) == change * 100 >= stock_price

\* closing[closing == closing[index + 1]].index[0]: the label of the first
\* entry, in date order, whose price equals the later price of the pair
ChangeDate(s, k) ==
    LET hits == {j \in 1..Len(s) : s[j].close = At(s, k + 1).close}
        first == CHOOSE j \in hits : \A h \in hits : j <= h
    IN  s[first].date

\* a variant with no fixed string for the empty case
ProcessNewsNoFallback(news_json) ==
    IF news_json.hasKey /\ Len(news_json.articles) > 0
    THEN news_json.articles[1]
    ELSE ""

\* process_news: the first title; a KeyError (no "articles" key, or no row 0)
\* gives the fixed string
ProcessNews(news_json) ==
    IF news_json.hasKey /\ Len(news_json.articles) > 0
    THEN news_json.articles[1]
    ELSE NoArticles

\* a variant that reports the display name
RaisedWithCompanyName(stock_name, company_name) == EmptyResultException(StockNotFound, company_name)

\* except KeyError: raise EmptyResultException('Stock not found!', stock_name)
RaisedOnKeyError(stock_name, company_name) == EmptyResultException(StockNotFound, stock_name)

\* df.to_sql(..., if_exists='append'): creates the table when absent
ToSql(t, df) == File(t.rows \o df)

\* a variant without the WHERE clause
ReadSqlAll(rows) == rows

\* SELECT * FROM table WHERE Company = "Oracle"
ReadSql(rows) == SelectSeq(rows, LAMBDA r : r.Company = VerifyCompany)

(***************************************************************************)
(* The batch loop: control flow                                            *)
(***************************************************************************)
\* for key, value in companies.items(): the statement after position k
LoopHead(k) == IF k <= Len(companies) THEN "get_stock_prices" ELSE "to_csv"

\* a variant in which a failure ends the loop
ExceptAbort(k) == Len(companies) + 1

\* after the except clause of the loop the for statement takes the next entry
ExceptAdvance(k) == k + 1

\* a variant in which the rows built before the failure are kept
ExceptReportPartial(report, partial) == report \o partial

\* an exception skips res_df = pd.concat([res_df, stock_df]): res_df keeps its value
ExceptReport(report, partial) == report

\* a variant in which the exception leaves the script
PersistReraise == "crashed"

\* the except clause of the persistence block falls off the end of the script
PersistExcept == "done"

ResetLocals ==
    /\ df_last_3_days_closing' = <<>>
    /\ index' = 0
    /\ result_df' = <<>>
    /\ positive_change' = 0
    /\ change_date' = 0
    /\ news_response' = NoNews

\* except Exception as ex: logging.error(ex), for the company at position i
HandlerExcept(ex) ==
    /\ log' = Append(log, ex)
    /\ outcome' = Append(outcome, Failed(Len(result_df)))
    /\ res_df' = ExceptReport(res_df, result_df)
    /\ i' = ExceptAdvance(i)
    /\ pc' = LoopHead(ExceptAdvance(i))
    /\ ResetLocals
    /\ UNCHANGED <<companies, stock_df, sinks>>

(***************************************************************************)
(* Actions                                                                 *)
(***************************************************************************)
\* stock_json_response = get_stock_prices(key)
GetStockPrices(E) ==
    /\ pc = "get_stock_prices"
    /\ \E r \in E.prices :
         IF r.kind = "raise"
         THEN HandlerExcept(TransportError("stock")) /\ UNCHANGED stock_json_response
         ELSE /\ stock_json_response' = r
              /\ pc' = "process_stock_prices"
              /\ UNCHANGED <<companies, i, stock_df, res_df, locals, sinks, log, outcome>>

\* process_stock_prices up to the for loop: frame, window, astype, sort_index
ProcessStockPrices ==
    /\ pc = "process_stock_prices"
    /\ IF ~stock_json_response.hasKey
       THEN /\ HandlerExcept(RaisedOnKeyError(companies[i].key, companies[i].value))
            /\ UNCHANGED stock_json_response
       ELSE IF stock_json_response.nrows <= CloseRow
       THEN HandlerExcept(IndexError) /\ UNCHANGED stock_json_response
       ELSE /\ df_last_3_days_closing' = SortIndex(Iloc(stock_json_response))
            /\ index' = 0
            /\ result_df' = <<>>
            /\ pc' = "for"
            /\ UNCHANGED <<companies, i, stock_json_response, stock_df, res_df,
                           positive_change, change_date, news_response, sinks, log, outcome>>

\* one iteration of the for loop up to the call of get_news
ForLoop ==
    /\ pc = "for"
    /\ index < Len(df_last_3_days_closing)
    /\ IF /\ index # Len(df_last_3_days_closing) - 1
          /\ AtLeastOnePercent(PositiveChange(df_last_3_days_closing, index),
                               At(df_last_3_days_closing, index).close)
       THEN /\ positive_change' = Round2(PositiveChange(df_last_3_days_closing, index))
            /\ change_date' = ChangeDate(df_last_3_days_closing, index)
            /\ pc' = "get_news"
            /\ UNCHANGED index
       ELSE /\ index' = index + 1
            /\ UNCHANGED <<positive_change, change_date, pc>>
    /\ UNCHANGED <<companies, i, stock_json_response, stock_df, res_df,
                   df_last_3_days_closing, result_df, news_response, sinks, log, outcome>>

\* get_news, process_news and the concat onto result_df; then the next iteration
GetNews(E) ==
    /\ pc = "get_news"
    /\ \E n \in E.news :
         IF n.kind = "raise"
         THEN HandlerExcept(TransportError("news")) /\ UNCHANGED stock_json_response
         ELSE /\ news_response' = n
              /\ result_df' = Append(result_df,
                    Row(companies[i].value, change_date, positive_change, ProcessNews(n)))
              /\ index' = index + 1
              /\ pc' = "for"
              /\ UNCHANGED <<companies, i, stock_json_response, stock_df, res_df,
                             df_last_3_days_closing, positive_change, change_date,
                             sinks, log, outcome>>

\* return result_df; res_df = pd.concat([res_df, stock_df]); next company
ReturnResult ==
    /\ pc = "for"
    /\ index = Len(df_last_3_days_closing)
    /\ stock_df' = result_df
    /\ res_df' = res_df \o result_df
    /\ outcome' = Append(outcome, Returned(result_df))
    /\ i' = i + 1
    /\ pc' = LoopHead(i + 1)
    /\ ResetLocals
    /\ UNCHANGED <<companies, stock_json_response, sinks, log>>

\* res_df.to_csv('out_result.csv')
ToCsv ==
    /\ pc = "to_csv"
    /\ out_result_csv' = File(res_df)
    /\ pc' = "load_to_db"
    /\ UNCHANGED <<companies, i, stock_json_response, stock_df, res_df, locals,
                   table, out_db_result_csv, log, called, outcome, table0>>

\* load_to_db(sql_engine, res_df) inside the try of the persistence block.
\* A failing to_sql may fail before anything is written, after the table was
\* created, or (on an engine without rollback) after part or all of the rows.
LoadToDb ==
    /\ pc = "load_to_db"
    /\ called' = called \cup {"load_to_db"}
    /\ \E ok \in BOOLEAN :
         IF ok
         THEN /\ table' = ToSql(table, res_df)
              /\ pc' = "read_from_db"
              /\ UNCHANGED log
         ELSE /\ log' = Append(log, DbError("load_to_db"))
              /\ pc' = PersistExcept
              /\ table' \in {table} \cup {ToSql(table, SubSeq(res_df, 1, n)) : n \in 0..Len(res_df)}
    /\ UNCHANGED <<companies, i, stock_json_response, stock_df, res_df, locals,
                   out_result_csv, out_db_result_csv, outcome, table0>>

\* read_from_db(sql_engine) inside the same try
ReadFromDb ==
    /\ pc = "read_from_db"
    /\ called' = called \cup {"read_from_db"}
    /\ \E ok \in BOOLEAN :
         IF ok
         THEN /\ out_db_result_csv' = File(ReadSql(table.rows))
              /\ pc' = "done"
              /\ UNCHANGED log
         ELSE /\ log' = Append(log, DbError("read_from_db"))
              /\ pc' = PersistExcept
              /\ UNCHANGED out_db_result_csv
    /\ UNCHANGED <<companies, i, stock_json_response, stock_df, res_df, locals,
                   out_result_csv, table, outcome, table0>>

(***************************************************************************)
(* Inputs: what the two APIs may answer, and what earlier runs left        *)
(***************************************************************************)
Prices == {100000, 101000, 101500, 101506, 102000}
Titles == {"T1", "T2"}

SeqsUpTo(S, n) == UNION {[1..k -> S] : k \in 0..n}

Desc(n) == [k \in 1..n |-> n + 1 - k]
Asc(n) == [k \in 1..n |-> k]
Rot(n) == [k \in 1..n |-> IF k = n THEN n ELSE n - k]
Layouts(n) == {Desc(n), Asc(n), Rot(n)}

Cols(dates, closes) == [k \in 1..Len(dates) |-> [date |-> dates[k], close |-> closes[k]]]

\* a full response listing the window w (oldest first) most recent first
FromChrono(w) == SeriesJson(NumFields, Cols(Desc(Len(w)), [k \in 1..Len(w) |-> w[Len(w) + 1 - k]]))

\* the closes of an n-day response: any prices in the window columns, one
\* fixed price in the columns iloc never reads
Closes(n) == {c \in [1..n -> Prices] : \A k \in 1..n : k > WindowCols => c[k] = 100000}

FullJsons ==
    UNION {{SeriesJson(NumFields, Cols(d, c)) : d \in Layouts(n), c \in Closes(n)} :
              n \in 1..MaxDates}

ShortJsons == {SeriesJson(0, <<>>), SeriesJson(CloseRow, Cols(Desc(3), <<101500, 102000, 100000>>))}

\* every answer within the bounds: transport failure, a response without the
\* key, short frames, and every layout and price assignment of 1..MaxDates days
OneEnv ==
    [prices |-> {RaiseJson, NoKeyJson} \cup ShortJsons
                 \cup FullJsons,
     news   |-> {RaiseNews, NoKeyNews} \cup {ArticlesJson(a) : a \in SeqsUpTo(Titles, MaxArticles)}]

\* a selection for the five-company run: transport failure, a response
\* without the key, the window [100, 102, 101.5] (one event) and the window
\* [100, 102, 100] (two events, two days at the same price)
BatchEnv ==
    [prices |-> {RaiseJson, NoKeyJson,
                 FromChrono(<<100000, 102000, 101500>>),
                 FromChrono(<<100000, 102000, 100000>>)},
     news   |-> {RaiseNews, ArticlesJson(<<"T1">>)}]

PriorPool == {Row("Oracle", 0, 1510, "T1"), Row("Tesla", 0, 2000, "T2")}
PriorTables == {NoFile} \cup {File(s) : s \in SeqsUpTo(PriorPool, MaxPrior)}

(***************************************************************************)
(* Specifications                                                          *)
(***************************************************************************)
InitWith(cs) ==
    /\ companies = cs
    /\ i = 1
    /\ pc = "get_stock_prices"
    /\ stock_json_response = NoJson
    /\ stock_df = <<>>
    /\ res_df = <<>>
    /\ df_last_3_days_closing = <<>>
    /\ index = 0
    /\ result_df = <<>>
    /\ positive_change = 0
    /\ change_date = 0
    /\ news_response = NoNews
    /\ out_result_csv = NoFile
    /\ table0 \in PriorTables
    /\ table = table0
    /\ out_db_result_csv = IF table0.exists THEN File(ReadSql(table0.rows)) ELSE NoFile
    /\ log = <<>>
    /\ called = {}
    /\ outcome = <<>>

NextWith(E) ==
    \/ GetStockPrices(E)
    \/ ProcessStockPrices
    \/ ForLoop
    \/ GetNews(E)
    \/ ReturnResult
    \/ ToCsv
    \/ LoadToDb
    \/ ReadFromDb

\* the script as committed: the five companies of main.py:167
Init == InitWith(Companies)
Next == NextWith(BatchEnv)
Spec == Init /\ [][Next]_vars

\* the one-company configuration of main.py:168, with the full input space
InitOne == InitWith(CompaniesAlt)
NextOne == NextWith(OneEnv)
SpecOne == InitOne /\ [][NextOne]_vars

(***************************************************************************)
(* Vocabulary of the properties                                            *)
(***************************************************************************)
PostLoop == {"to_csv", "load_to_db", "read_from_db", "done"}
InLoop == {"get_stock_prices", "process_stock_prices", "for", "get_news"}
Written == {"load_to_db", "read_from_db", "done"}

\* the events the visited companies returned, in visit order
RECURSIVE Gathered(_)
Gathered(o) == IF o = <<>> THEN <<>> ELSE Head(o).events \o Gathered(Tail(o))

\* the rows this run appended to the table
Appended == SubSeq(table.rows, Len(table0.rows) + 1, Len(table.rows))

RowsOf(rows, c) == {k \in 1..Len(rows) : rows[k].Company = c}

RECURSIVE Keep(_, _)
Keep(rows, c) ==
    IF rows = <<>> THEN <<>>
    ELSE (IF Head(rows).Company = c THEN <<Head(rows)>> ELSE <<>>) \o Keep(Tail(rows), c)

Ascending(rows) == \A a, b \in 1..Len(rows) : a < b => rows[a].Date < rows[b].Date

LoadFailed == \E k \in 1..Len(log) : log[k] = DbError("load_to_db")
ReadFailed == \E k \in 1..Len(log) : log[k] = DbError("read_from_db")
ReadSucceeded == pc = "done" /\ "read_from_db" \in called /\ ~ReadFailed

\* the window of the company just processed, oldest day first: the entry
\* with k - 1 earlier days stands at place k
Window == Iloc(stock_json_response)
Chrono ==
    [k \in 1..Len(Window) |->
        CHOOSE e \in {Window[j] : j \in 1..Len(Window)} :
            Cardinality({j \in 1..Len(Window) : Window[j].date < e.date}) = k - 1]
Delta(k) == Abs(Chrono[k].close - Chrono[k + 1].close)
Qualifies(k) == 100 * Delta(k) >= Chrono[k].close
NearestHundredth(m, x) == m % 10 = 0 /\ 2 * Abs(m - x) <= 10

\* the only company of the one-company configuration has returned its frame
OneReturned ==
    /\ Len(outcome) = 1
    /\ ~outcome[1].failed
    /\ stock_json_response.kind = "json"
    /\ stock_json_response.hasKey

(***************************************************************************)
(* C1  Per-company failure isolation                                       *)
(***************************************************************************)
\* C1: whichever companies raise (at the price fetch, while the frame is
\* built, or at a news fetch), the loop visits every company in order and
\* reaches the export; the report is at every moment the concatenation of
\* what the companies that did not fail returned; the script never stops
\* before its last statement.
C1_FailureIsolation ==
    /\ Len(outcome) = i - 1
    /\ res_df = Gathered(outcome)
    /\ (pc \in InLoop => i <= Len(companies))
    /\ (pc \in PostLoop => Len(outcome) = Len(companies))
    /\ (pc = "done" \/ ENABLED Next)

\* the third of five companies raised a transport error, the other four
\* returned events, and all of them are in the final report
C1_Witness ==
    /\ pc = "done"
    /\ Len(outcome) = 5
    /\ outcome[3].failed
    /\ log[1].type = "TransportError"
    /\ \A k \in {1, 2, 4, 5} : ~outcome[k].failed /\ outcome[k].events # <<>>
    /\ \A k \in {1, 2, 4, 5} : RowsOf(res_df, companies[k].value) # {}

(***************************************************************************)
(* C2  No partial rows from a failed company                               *)
(***************************************************************************)
\* C2: a company whose processing raised has no row in the report, in the
\* flat file or among the rows appended to the table, also when an event of
\* its first pair had already been built; and the step that handles the
\* failure leaves the report as it was.
C2_NoPartialRows ==
    /\ [](\A k \in 1..Len(outcome) :
            outcome[k].failed =>
                /\ RowsOf(res_df, companies[k].value) = {}
                /\ RowsOf(out_result_csv.rows, companies[k].value) = {}
                /\ RowsOf(Appended, companies[k].value) = {})
    /\ [][(pc \in InLoop /\ Len(log') > Len(log)) => res_df' = res_df]_vars

\* a later company failed at the news fetch of its second pair, after one
\* event had been built, and the run went on to write file and table
C2_Witness ==
    /\ pc = "done"
    /\ \E k \in 2..Len(outcome) : outcome[k].failed /\ outcome[k].dropped = 1
    /\ res_df # <<>>
    /\ out_result_csv = File(res_df)
    /\ Appended = res_df

(***************************************************************************)
(* C3  Change detection                                                    *)
(***************************************************************************)
\* C3: for a window of three closing prices in date order, the returned
\* frame has one event per adjacent pair k in {1, 2} with
\* |p[k] - p[k+1]| >= 0.01 * p[k] and no other event, in pair order, so 0, 1
\* or 2 events; the last price is never taken as the base of a comparison;
\* for prices [100, 102, 101.5] there is exactly one event, on the second
\* day, with value 2.0.
C3_ChangeDetection ==
    /\ (pc = "get_news" => index < Len(df_last_3_days_closing) - 1)
    /\ (OneReturned /\ Len(Window) = 3 =>
          LET ev == outcome[1].events
              q == {k \in {1, 2} : Qualifies(k)}
          IN  /\ Len(ev) = Cardinality(q)
              /\ Len(ev) <= 2
              /\ (q = {1, 2} => /\ NearestHundredth(ev[1].PositiveChange, Delta(1))
                                /\ NearestHundredth(ev[2].PositiveChange, Delta(2)))
              /\ \A k \in {1, 2} : q = {k} => NearestHundredth(ev[1].PositiveChange, Delta(k))
              /\ (<<Chrono[1].close, Chrono[2].close, Chrono[3].close>> = <<100000, 102000, 101500>>
                    => /\ Len(ev) = 1
                       /\ ev[1].PositiveChange = 2000
                       /\ ev[1].Date = Chrono[2].date))

\* the window [100, 102, 101.5] was processed and gave its single event
C3_Witness ==
    /\ OneReturned
    /\ Len(Window) = 3
    /\ <<Chrono[1].close, Chrono[2].close, Chrono[3].close>> = <<100000, 102000, 101500>>
    /\ Len(res_df) = 1
    /\ res_df[1].PositiveChange = 2000

(***************************************************************************)
(* C4  Event date                                                          *)
(***************************************************************************)
\* C4: when the news lookup for the pair at position index is about to be
\* made, its date, which is also the date of the event, is the date of the
\* later observation of the pair, also when two days of the window closed
\* at the same price.
C4_EventDate ==
    pc = "get_news" => change_date = At(df_last_3_days_closing, index + 1).date

(***************************************************************************)
(* C5  Report ordering                                                     *)
(***************************************************************************)
\* C5: after the loop the report is the concatenation of the companies'
\* frames in list order, and the events of each company are in strictly
\* ascending date order.
C5_ReportOrdering ==
    pc \in PostLoop =>
        /\ res_df = Gathered(outcome)
        /\ \A k \in 1..Len(outcome) : Ascending(outcome[k].events)

C7_EmptyNews ==
    (news_response.kind = "json" /\ news_response.hasKey /\ news_response.articles = <<>>) =>
        /\ pc \in {"for", "get_news"}
        /\ Len(outcome) = i - 1
        /\ result_df # <<>>
        /\ result_df[Len(result_df)].Title = "No articles found!"
        /\ result_df[Len(result_df)].Company = companies[i].value

\* the news of a qualifying pair came back with no article and the event
\* stands in the frame
C7_Witness ==
    /\ news_response = ArticlesJson(<<>>)
    /\ pc = "for"
    /\ Len(result_df) = 1
    /\ result_df[1].Title = "No articles found!"

(***************************************************************************)
(* C8  Persistence failures                                                *)
(***************************************************************************)
\* C8 as stated: the flat file holds the report before either persistence
\* step starts and keeps it; neither failure stops the script abnormally;
\* and the verification read is attempted even when the append failed.
C8_Original ==
    /\ (pc \in Written => out_result_csv = File(res_df))
    /\ pc \in InLoop \cup PostLoop
    /\ (pc = "done" => "read_from_db" \in called)

\* C8 as amended: a failure of the append or of the verification read is
\* caught and logged by the one handler both share and does not propagate;
\* when the append failed the verification read is not attempted (the
\* verification file stays as earlier runs left it), and it is attempted
\* exactly when the append succeeded; the flat file holds the report before
\* either step starts and keeps it.
C8_Persistence ==
    /\ (pc \in Written => out_result_csv = File(res_df))
    /\ pc \in InLoop \cup PostLoop
    /\ (pc = "done" => ("read_from_db" \in called <=> ~LoadFailed))
    /\ (pc = "done" => "load_to_db" \in called)
    /\ (LoadFailed => /\ pc = "done"
                      /\ out_db_result_csv = (IF table0.exists THEN File(Keep(table0.rows, "Oracle")) ELSE NoFile))
    /\ (ReadFailed => pc = "done" /\ table = File(table0.rows \o res_df))

\* the append failed, part of the rows written, after a non-empty report
\* had been exported
C8_Witness ==
    /\ pc = "done"
    /\ LoadFailed
    /\ Len(Appended) = 1
    /\ res_df # <<>>
    /\ out_result_csv = File(res_df)

(***************************************************************************)
(* C9  Verification round-trip                                             *)
(***************************************************************************)
\* C9: whatever earlier runs left in the table, when the append and the
\* verification read both succeed the table is the earlier rows followed by
\* the report, and the verification file holds exactly the "Oracle" rows of
\* the table, earlier ones first, and no row of another company.
C9_RoundTrip ==
    ReadSucceeded =>
        /\ table = File(table0.rows \o res_df)
        /\ out_db_result_csv = File(Keep(table0.rows, "Oracle") \o Keep(res_df, "Oracle"))
        /\ \A k \in 1..Len(out_db_result_csv.rows) : out_db_result_csv.rows[k].Company = "Oracle"

\* the table held an Oracle row and a row of another company, the run added
\* Oracle rows and rows of other companies, and the file was rewritten
C9_Witness ==
    /\ ReadSucceeded
    /\ RowsOf(table0.rows, "Oracle") # {}
    /\ RowsOf(table0.rows, "Tesla") # {}
    /\ RowsOf(res_df, "Oracle") # {}
    /\ RowsOf(res_df, "Ibm") # {}
    /\ Len(out_db_result_csv.rows) = 1 + Cardinality(RowsOf(res_df, "Oracle"))

(***************************************************************************)
(* C10  Recorded change value                                              *)
(***************************************************************************)
\* C10: the event appended for the pair at position index carries the
\* absolute difference of the two prices rounded to the nearest hundredth;
\* every row of the report, of the flat file and of the rows appended to the
\* table carries a non-negative multiple of 0.01 that is the rounded absolute
\* difference of an adjacent pair of the window.
C10_Value(rows) ==
    \A k \in 1..Len(rows) :
        /\ rows[k].PositiveChange >= 0
        /\ rows[k].PositiveChange % 10 = 0
        /\ (stock_json_response.kind = "json" =>
              \E j \in 1..(Len(Window) - 1) : NearestHundredth(rows[k].PositiveChange, Delta(j)))

C10_ChangeValue ==
    /\ [](C10_Value(res_df) /\ C10_Value(out_result_csv.rows) /\ C10_Value(Appended))
    /\ [][Len(result_df') > Len(result_df) =>
            NearestHundredth(result_df'[Len(result_df')].PositiveChange,
                Abs(At(df_last_3_days_closing, index).close
                    - At(df_last_3_days_closing, index + 1).close))]_vars

\* a fall from 101.506 to 100 was recorded as 1.51 in report, file and table
C10_Witness ==
    /\ pc = "done"
    /\ OneReturned
    /\ Len(Window) >= 2
    /\ Chrono[1].close = 101506
    /\ Chrono[2].close = 100000
    /\ res_df # <<>>
    /\ res_df[1].PositiveChange = 1510
    /\ out_result_csv = File(res_df)
    /\ Appended = res_df

====
